---- MODULE Spec2Model ----
(***************************************************************************)
(* MuaiPusher persistent worker (main.py): the refresh policy, the merge   *)
(* of the schedule store and the per-day notification loop, with the       *)
(* durable files, the wall clock, the mosque web site, the extractor and   *)
(* the push endpoint as environment.                                       *)
(*                                                                         *)
(* Time is an instant in whole minutes (UTC) since day 0, 00:00.  The UK   *)
(* wall clock is the instant plus the offset pytz gives Europe/London at   *)
(* that instant: one hour (BST) until the clocks go back on the third day  *)
(* of the run, none (GMT) after.  A date is a wall-clock day number (the   *)
(* code's "YYYY-MM-DD" strings order the same way), a time of day "HH:MM"  *)
(* is the minute of the day.  Only sleeps and the time the process is down *)
(* advance the clock; a relaunch takes at least a minute.                  *)
(*                                                                         *)
(* requests.post either returns (the message is delivered) or raises;      *)
(* the home page fetch, the image download and the extraction either       *)
(* return or raise.  The variables call, pass and sent only observe the    *)
(* run: they never appear in a guard of the program's steps.               *)
(*                                                                         *)
(* Spec is the worker with kills and relaunches, SpecLive the worker that  *)
(* is never killed, under weak fairness of its steps, and SpecUtil applies *)
(* the string helpers of schedule.py (time_until, fmt_12h) to every HH:MM. *)
(***************************************************************************)
EXTENDS Integers, Sequences, FiniteSets, TLC

\* ---------------------------------------------------------------- bounds
StartDay == 8          \* first day the worker is launched on
MaxDay == 10           \* the clock never passes the end of this day
MaxLaunches == 2       \* launches of the process (first start + relaunches)

\* ------------------------------------------------------ program constants
DayLen == 1440                  \* minutes in a day (timedelta(days=1))
REFRESH_INTERVAL_DAYS == 7
BackoffMinutes == 30            \* time.sleep(30 * 60)
MidnightMinute == 1             \* replace(hour=0, minute=1)
None == -1                      \* Python None / absent file / absent key
BstOffset == 60                 \* utcoffset of Europe/London in summer, minutes

PRAYERS == << <<"fajr",    "fajr_start",    "fajr_jamaat">>,
              <<"zuhr",    "zuhr_start",    "zuhr_jamaat">>,
              <<"asr",     "asr_start",     "asr_jamaat">>,
              <<"maghrib", "maghrib_start", "maghrib_jamaat">>,
              <<"isha",    "isha_start",    "isha_jamaat">> >>

NoPrayer == "none"              \* next_prayer = None
NoUrl == "no_file"              \* load_last_url() = None

\* ------------------------------------------------------------ environment
Urls == {"u1", "u2"}            \* identifiers the home page may link to
Downtimes == {1, DayLen}        \* minutes between a kill and the relaunch
StartTods == {0, 600, 1425}     \* 00:00, 10:00, 23:45

Entry(d, fs, fj, sr, zs, zj, as, aj, ms, mj, is, ij) ==
    [date |-> d, fajr_start |-> fs, fajr_jamaat |-> fj, sunrise |-> sr,
     zuhr_start |-> zs, zuhr_jamaat |-> zj, asr_start |-> as, asr_jamaat |-> aj,
     maghrib_start |-> ms, maghrib_jamaat |-> mj, isha_start |-> is, isha_jamaat |-> ij]

\* 05:54/06:45, sunrise 07:34, 12:23/13:00, 14:48/15:15, 16:32/16:37, 18:12/20:00
FullDay(d) == Entry(d, 354, 405, 454, 743, 780, 888, 915, 992, 997, 1092, 1200)
\* the same day with a later fajr (06:10)
LateFajr(d) == Entry(d, 370, 405, 454, 743, 780, 888, 915, 992, 997, 1092, 1200)
\* only fajr and sunrise are known
FajrOnly(d) == Entry(d, 354, 405, 454, None, None, None, None, None, None, None, None)
\* no sunrise, zuhr has no start, isha has no jamaat
Gappy(d) == Entry(d, 354, 405, None, None, 780, 888, 915, 992, 997, 1092, None)
\* fajr and zuhr have a start but no jamaat, maghrib is unknown
NoJamaat(d) == Entry(d, 354, None, 454, 743, None, 888, 915, None, None, 1092, 1200)

FirstCalendar ==
    [week_label |-> "w1", prayers |-> <<FullDay(StartDay), FajrOnly(StartDay + 1)>>]

\* what the extractor may return for an image (new_data)
Calendars ==
    { FirstCalendar,
      [week_label |-> "w2", prayers |-> <<Gappy(StartDay + 1), LateFajr(StartDay)>>],
      [week_label |-> "w3", prayers |-> <<NoJamaat(StartDay + 1), FullDay(StartDay + 2)>>] }

VARIABLES
    clock,          \* datetime.now(UK_TZ), minutes
    pc,             \* position of the process in main()
    scheduleFile,   \* schedule.json: [exists, week_label, prayers]
    lastUrl,        \* last_url.txt (NoUrl when absent)
    lastFetch,      \* last_fetch.txt (None when absent)
    image_url,      \* refresh_schedule: image_url
    new_data,       \* refresh_schedule: new_data
    today_entry,    \* run_day: today_entry
    now,            \* run_day: now
    i,              \* run_day: index into PRAYERS (1-based)
    prayer_time,    \* run_day: prayer_time
    launches,       \* number of launches so far
    call,           \* observation of the current/last refresh_schedule call
    sent,           \* delivered prayer notifications per <<date, prayer>>
    pass,           \* observation of the current/last run_day pass
    hhmm_str,       \* schedule.py: the "HH:MM" argument, as <<HH, MM>>
    text            \* schedule.py: the returned string, one character per element

durable == <<scheduleFile, lastUrl, lastFetch>>
locals == <<image_url, new_data, today_entry, now, i, prayer_time>>
util == <<hhmm_str, text>>
vars == <<clock, pc, scheduleFile, lastUrl, lastFetch, image_url, new_data,
          today_entry, now, i, prayer_time, launches, call, sent, pass, hhmm_str, text>>

\* ---------------------------------------------------------------- helpers
NoSchedule == [exists |-> FALSE, week_label |-> "", prayers |-> <<>>]
NoData == [week_label |-> "", prayers |-> <<>>]
NoEntry == [date |-> None]

Max(a, b) == IF a >= b THEN a ELSE b

\* the instant the clocks go back: 02:00 BST becomes 01:00 GMT
FallBack == (StartDay + 2) * DayLen + 60

\* utcoffset() of datetime.now(UK_TZ) taken at instant t
UtcOffset(t) == IF t < FallBack THEN BstOffset ELSE 0

\* the wall clock at instant t, in minutes since day 0, 00:00
Wall(t) == t + UtcOffset(t)

\* strftime("%Y-%m-%d") of datetime.now(UK_TZ) taken at instant t
DateOf(t) == Wall(t) \div DayLen

\* now.replace(hour=h, minute=m, second=0): the date and the tzinfo of now
\* are kept, so the result carries the offset in force at t
AtMinute(t, hhmm) == DateOf(t) * DayLen + hhmm - UtcOffset(t)

EndOfTime == (MaxDay + 1) * DayLen
\* ------------------------------------------------- schedule.json contents
\* dict update existing_by_date[entry["date"]] = entry
Put(m, e) == [d \in (DOMAIN m) \cup {e.date} |-> IF d = e.date THEN e ELSE m[d]]

\* {e["date"]: e for e in seq} continued from dict m (later entries overwrite)
RECURSIVE ByDate(_, _)
ByDate(m, seq) ==
    IF seq = <<>> THEN m ELSE ByDate(Put(m, Head(seq)), Tail(seq))

EmptyDict == [d \in {} |-> NoEntry]

MinOf(S) == CHOOSE x \in S : \A y \in S : x <= y

\* sorted(existing_by_date.values(), key=lambda e: e["date"])
RECURSIVE SortedValues(_)
SortedValues(m) ==
    IF DOMAIN m = {} THEN <<>>
    ELSE LET d == MinOf(DOMAIN m)
         IN <<m[d]>> \o SortedValues([x \in (DOMAIN m) \ {d} |-> m[x]])

\* a refresh that replaces the document instead of merging into it
Replaced(file, data) ==
    [exists |-> TRUE, week_label |-> data.week_label,
     prayers |-> SortedValues(ByDate(EmptyDict, data.prayers))]

\* main.py lines 95-101: the merged document
Merged(file, data) ==
    LET existing == IF file.exists THEN file.prayers ELSE <<>>
        existing_by_date == ByDate(ByDate(EmptyDict, existing), data.prayers)
    IN [exists |-> TRUE, week_label |-> data.week_label,
        prayers |-> SortedValues(existing_by_date)]

\* the same comparison with the elapsed time left in minutes
FetchedRecentlyInMinutes(t) ==
    /\ lastFetch # None
    /\ t - lastFetch < REFRESH_INTERVAL_DAYS

\* the same comparison with <= in place of <
FetchedRecentlyOrJustDue(t) ==
    /\ lastFetch # None
    /\ t - lastFetch <= REFRESH_INTERVAL_DAYS * DayLen

\* days_since_last_fetch() < REFRESH_INTERVAL_DAYS (inf when the file is absent)
FetchedRecently(t) ==
    /\ lastFetch # None
    /\ t - lastFetch < REFRESH_INTERVAL_DAYS * DayLen

\* the dates of a list of entries
DatesOf(seq) == {seq[k].date : k \in 1..Len(seq)}

\* ------------------------------------------------------------------- Init
NoCall == [outcome |-> "none", prev |-> "none", at |-> None,
           fetched |-> NoUrl, fetches |-> 0, downloads |-> 0, extracts |-> 0,
           pre |-> <<NoSchedule, NoUrl, None>>, data |-> NoData, dates |-> {}]
NoPass == [state |-> "none", date |-> None, found |-> FALSE, entry |-> NoEntry,
           now |-> None, unavailable |-> 0, log |-> <<>>, resumed |-> None, run |-> 0]

\* The files are either absent (first deployment) or as a previous run of the
\* worker left them after a successful refresh, 7 days or half a day ago.
InitDurable ==
    \/ /\ scheduleFile = NoSchedule
       /\ lastUrl = NoUrl
       /\ lastFetch = None
    \/ /\ scheduleFile = Merged(NoSchedule, FirstCalendar)
       /\ lastUrl = "u1"
       /\ lastFetch \in {(StartDay - REFRESH_INTERVAL_DAYS) * DayLen - BstOffset,
                         (StartDay - 1) * DayLen + 720}

Init ==
    /\ clock \in {StartDay * DayLen + t - BstOffset : t \in StartTods}
    /\ pc = "refresh"
    /\ InitDurable
    /\ image_url = NoUrl
    /\ new_data = NoData
    /\ today_entry = NoEntry
    /\ now = None
    /\ i = 0
    /\ prayer_time = None
    /\ launches = 1
    /\ call = [NoCall EXCEPT !.dates = IF lastUrl = NoUrl THEN {}
                                       ELSE DatesOf(FirstCalendar.prayers)]
    /\ sent = [k \in {} |-> 0]
    /\ pass = NoPass
    /\ hhmm_str = <<0, 0>>
    /\ text = <<>>

\* ------------------------------------------------------- refresh_schedule
\* a handler that also stamps last_fetch.txt
StampOnScrapeError ==
    /\ lastFetch' = clock
    /\ UNCHANGED <<scheduleFile, lastUrl>>

\* lines 79-81: except Exception: print(...); return
HandleScrapeError == UNCHANGED <<scheduleFile, lastUrl, lastFetch>>

\* a handler that records the identifier and the time of the failed attempt
StampOnRefreshError ==
    /\ lastFetch' = clock
    /\ lastUrl' = image_url
    /\ UNCHANGED scheduleFile

\* lines 106-107: except Exception: print(...)
HandleRefreshError == UNCHANGED <<scheduleFile, lastUrl, lastFetch>>

\* lines 72-75: the 7-day gate
RefreshGate(force) ==
    /\ pc = "refresh"
    /\ LET skip == ~force /\ FetchedRecently(clock) /\ scheduleFile.exists
       IN /\ pc' = IF skip THEN "run_day" ELSE "fetch"
          /\ call' = [NoCall EXCEPT !.outcome = IF skip THEN "skipped" ELSE "running",
                                    !.prev = call.outcome,
                                    !.at = clock,
                                    !.pre = durable,
                                    !.dates = call.dates]
    /\ UNCHANGED <<clock, durable, locals, launches, sent, pass>>
    /\ UNCHANGED util

\* lines 77-87: scrape the home page, compare with last_url.txt
FetchUrl(force) ==
    /\ pc = "fetch"
    /\ \/ /\ pc' = "run_day"
          /\ call' = [call EXCEPT !.outcome = "fetch_failed", !.fetches = 1]
          /\ HandleScrapeError
          /\ UNCHANGED image_url
       \/ \E url \in Urls :
            IF url = lastUrl /\ scheduleFile.exists /\ ~force
            THEN /\ pc' = "run_day"
                 /\ lastFetch' = clock
                 /\ call' = [call EXCEPT !.outcome = "unchanged", !.fetches = 1,
                                         !.fetched = url]
                 /\ UNCHANGED <<scheduleFile, lastUrl, image_url>>
            ELSE /\ pc' = "download"
                 /\ image_url' = url
                 /\ call' = [call EXCEPT !.fetches = 1, !.fetched = url]
                 /\ UNCHANGED durable
    /\ UNCHANGED <<clock, new_data, today_entry, now, i, prayer_time, launches, sent, pass>>
    /\ UNCHANGED util

\* lines 91-92: download_image and extract_schedule; either may raise
\* (vision.py raises on the {"error": "not_found"} sentinel)
DownloadExtract ==
    /\ pc = "download"
    /\ \E r \in {"ok", "download_error", "not_found"} :
        /\ IF r = "ok"
           THEN /\ \E c \in Calendars :
                     /\ new_data' = c
                     /\ call' = [call EXCEPT !.downloads = 1, !.extracts = 1, !.data = c]
                /\ pc' = "merge"
                /\ UNCHANGED <<image_url, durable>>
           ELSE /\ pc' = "run_day"
                /\ new_data' = NoData
                /\ image_url' = NoUrl
                /\ call' = [call EXCEPT !.outcome = "failed", !.downloads = 1,
                                        !.extracts = IF r = "not_found" THEN 1 ELSE 0]
                /\ HandleRefreshError
    /\ UNCHANGED <<clock, today_entry, now, i, prayer_time, launches, sent, pass>>
    /\ UNCHANGED util

\* a merge whose result is not written to schedule.json
MergeNotWritten ==
    /\ pc = "merge"
    /\ pc' = "save_url"
    /\ UNCHANGED <<clock, durable, locals, launches, call, sent, pass>>
    /\ UNCHANGED util

\* lines 95-102: merge by date and write schedule.json
WriteSchedule ==
    /\ pc = "merge"
    /\ scheduleFile' = Merged(scheduleFile, new_data)
    /\ pc' = "save_url"
    /\ UNCHANGED <<clock, lastUrl, lastFetch, locals, launches, call, sent, pass>>
    /\ UNCHANGED util

\* line 103: save_last_url(image_url); call.dates remembers the dates that
\* were extracted from the image of the identifier now in last_url.txt
SaveLastUrl ==
    /\ pc = "save_url"
    /\ lastUrl' = image_url
    /\ pc' = "save_ts"
    /\ call' = [call EXCEPT !.dates = DatesOf(new_data.prayers)]
    /\ UNCHANGED <<clock, scheduleFile, lastFetch, locals, launches, sent, pass>>
    /\ UNCHANGED util

\* line 104: save_fetch_timestamp(), then return
SaveFetchTimestamp ==
    /\ pc = "save_ts"
    /\ lastFetch' = clock
    /\ pc' = "run_day"
    /\ image_url' = NoUrl
    /\ new_data' = NoData
    /\ call' = [call EXCEPT !.outcome = "updated"]
    /\ UNCHANGED <<clock, scheduleFile, lastUrl, today_entry, now, i, prayer_time,
                   launches, sent, pass>>
    /\ UNCHANGED util

\* ------------------------------------------------------------ schedule.py
\* get_todays_prayers(): the first entry of schedule.json dated today
TodaysPrayers(file, t) ==
    LET hits == {k \in 1..Len(file.prayers) : file.prayers[k].date = DateOf(t)}
    IN IF ~file.exists \/ hits = {} THEN NoEntry ELSE file.prayers[MinOf(hits)]

\* ---------------------------------------------------------------- run_day
ClearLocals ==
    /\ image_url' = NoUrl
    /\ new_data' = NoData
    /\ today_entry' = NoEntry
    /\ now' = None
    /\ i' = 0
    /\ prayer_time' = None

\* "not v" for a field of an entry
Missing(v) == v = None

\* a check that forgets the jamaat
StartMissing(start, jamaat) == Missing(start)

\* line 144: if not start or not jamaat: continue
Skip(start, jamaat) == Missing(start) \/ Missing(jamaat)

\* prayer_dt_today(hhmm): HH:MM on the date the clock shows when it is called
prayer_dt_today(hhmm) == AtMinute(clock, hhmm)

\* a search for the first later prayer whose start is known
NextWithStart(entry, k) ==
    LET later == {n \in (k + 1)..Len(PRAYERS) : ~Missing(entry[PRAYERS[n][2]])}
    IN IF later = {} THEN <<NoPrayer, None>>
       ELSE <<PRAYERS[MinOf(later)][1], entry[PRAYERS[MinOf(later)][2]]>>

\* lines 158-165: the prayer after PRAYERS[k], if its start is known
NextPrayer(entry, k) ==
    IF k + 1 <= Len(PRAYERS) /\ ~Missing(entry[PRAYERS[k + 1][2]])
    THEN <<PRAYERS[k + 1][1], entry[PRAYERS[k + 1][2]]>>
    ELSE <<NoPrayer, None>>

\* a loop that does not move on from a skipped prayer
ContinueSame ==
    /\ pc' = "loop"
    /\ UNCHANGED <<today_entry, now, i, pass>>

\* the for loop moves to the next prayer, or run_day returns
Continue ==
    IF i < Len(PRAYERS)
    THEN /\ i' = i + 1
         /\ pc' = "loop"
         /\ UNCHANGED <<today_entry, now, pass>>
    ELSE /\ i' = 0
         /\ pc' = "midnight"
         /\ today_entry' = NoEntry
         /\ now' = None
         /\ pass' = [pass EXCEPT !.state = "returned"]

\* lines 128-138: look today's entry up
RunDay ==
    /\ pc = "run_day"
    /\ LET e == TodaysPrayers(scheduleFile, clock)
       IN IF e = NoEntry
          THEN /\ pc' = "unavailable"
               /\ pass' = [NoPass EXCEPT !.state = "running", !.run = launches, !.date = DateOf(clock)]
               /\ UNCHANGED <<today_entry, now, i>>
          ELSE /\ pc' = "loop"
               /\ today_entry' = e
               /\ now' = clock
               /\ i' = 1
               /\ pass' = [NoPass EXCEPT !.state = "running", !.run = launches, !.date = DateOf(clock),
                                         !.found = TRUE, !.entry = e, !.now = clock]
    /\ UNCHANGED <<clock, durable, image_url, new_data, prayer_time, launches,
                   call, sent>>
    /\ UNCHANGED util

\* lines 132 and notifier.py 24-35, 102-107: requests.post returns or raises
SendUnavailable ==
    /\ pc = "unavailable"
    /\ \E ok \in BOOLEAN :
        /\ IF ok
           THEN /\ pc' = "backoff"
                /\ pass' = [pass EXCEPT !.unavailable = @ + 1]
           ELSE /\ pc' = "crashed"
                /\ pass' = [pass EXCEPT !.state = "crashed"]
    /\ UNCHANGED <<clock, durable, locals, launches, call, sent>>
    /\ UNCHANGED util

\* line 134-135: time.sleep(30 * 60); return
Backoff ==
    /\ pc = "backoff"
    /\ clock + BackoffMinutes < EndOfTime
    /\ clock' = clock + BackoffMinutes
    /\ pc' = "midnight"
    /\ pass' = [pass EXCEPT !.state = "returned", !.resumed = clock']
    /\ UNCHANGED <<durable, locals, launches, call, sent>>
    /\ UNCHANGED util

\* a check that never finds a prayer passed
NeverPassed(t, n) == FALSE

\* line 150: "if prayer_time < now"
AlreadyPassed(t, n) == t < n

\* lines 140-152: one iteration of the loop up to the sleep
Loop ==
    /\ pc = "loop"
    /\ LET start == today_entry[PRAYERS[i][2]]
           jamaat == today_entry[PRAYERS[i][3]]
       IN IF Skip(start, jamaat)
          THEN Continue /\ UNCHANGED prayer_time
          ELSE IF AlreadyPassed(prayer_dt_today(start), now)
          THEN Continue /\ UNCHANGED prayer_time
          ELSE /\ prayer_time' = prayer_dt_today(start)
               /\ pc' = "sleep"
               /\ UNCHANGED <<today_entry, now, i, pass>>
    /\ UNCHANGED <<clock, durable, image_url, new_data, launches, call, sent>>
    /\ UNCHANGED util

\* lines 117-123, 155: sleep_until(prayer_time)
SleepUntilPrayer ==
    /\ pc = "sleep"
    /\ Max(clock, prayer_time) < EndOfTime
    /\ clock' = Max(clock, prayer_time)
    /\ pc' = "send"
    /\ UNCHANGED <<durable, locals, launches, call, sent, pass>>
    /\ UNCHANGED util

\* lines 157-176: next prayer, sunrise, send_prayer_notification
SendPrayer ==
    /\ pc = "send"
    /\ \E ok \in BOOLEAN :
        /\ IF ok
           THEN LET prayer == PRAYERS[i][1]
                    key == <<today_entry.date, prayer>>
                    np == NextPrayer(today_entry, i)
                    note == [prayer |-> prayer,
                             start |-> today_entry[PRAYERS[i][2]],
                             jamaat |-> today_entry[PRAYERS[i][3]],
                             next_prayer |-> np[1], next_start |-> np[2],
                             sunrise |-> IF prayer = "fajr" THEN today_entry.sunrise ELSE None,
                             at |-> clock]
                IN /\ sent' = IF key \in DOMAIN sent
                              THEN [sent EXCEPT ![key] = @ + 1]
                              ELSE sent @@ (key :> 1)
                   /\ prayer_time' = None
                   /\ IF i < Len(PRAYERS)
                      THEN /\ i' = i + 1
                           /\ pc' = "loop"
                           /\ pass' = [pass EXCEPT !.log = Append(@, note)]
                           /\ UNCHANGED <<today_entry, now>>
                      ELSE /\ i' = 0
                           /\ pc' = "midnight"
                           /\ today_entry' = NoEntry
                           /\ now' = None
                           /\ pass' = [pass EXCEPT !.log = Append(@, note),
                                                   !.state = "returned"]
           ELSE /\ pc' = "crashed"
                /\ pass' = [pass EXCEPT !.state = "crashed"]
                /\ today_entry' = NoEntry
                /\ now' = None
                /\ i' = 0
                /\ prayer_time' = None
                /\ UNCHANGED sent
    /\ UNCHANGED <<clock, durable, image_url, new_data, launches, call>>
    /\ UNCHANGED util

\* ------------------------------------------------------------------- main
\* lines 179-183: sleep until 00:01 of the day after the current one
sleep_until_midnight ==
    /\ pc = "midnight"
    /\ LET tomorrow == AtMinute(clock, MidnightMinute) + DayLen
       IN /\ Max(clock, tomorrow) < EndOfTime
          /\ clock' = Max(clock, tomorrow)
    /\ pc' = "refresh"
    /\ UNCHANGED <<durable, locals, launches, call, sent, pass>>
    /\ UNCHANGED util

\* ------------------------------------------------------------ environment
\* the process is killed at any point
Kill ==
    /\ pc \notin {"killed", "crashed"}
    /\ pc' = "killed"
    /\ ClearLocals
    /\ pass' = IF pass.state = "running" THEN [pass EXCEPT !.state = "killed"] ELSE pass
    /\ call' = IF call.outcome = "running" THEN [call EXCEPT !.outcome = "interrupted"] ELSE call
    /\ UNCHANGED <<clock, durable, launches, sent>>
    /\ UNCHANGED util

\* and launched again some time later; main() starts from its first line
Launch ==
    /\ pc \in {"killed", "crashed"}
    /\ launches < MaxLaunches
    /\ \E d \in Downtimes :
        /\ clock + d < EndOfTime
        /\ clock' = clock + d
    /\ pc' = "refresh"
    /\ launches' = launches + 1
    /\ UNCHANGED <<durable, locals, call, sent, pass>>
    /\ UNCHANGED util

Next ==
    \/ RefreshGate(FALSE)
    \/ FetchUrl(FALSE)
    \/ DownloadExtract
    \/ WriteSchedule
    \/ SaveLastUrl
    \/ SaveFetchTimestamp
    \/ RunDay
    \/ SendUnavailable
    \/ Backoff
    \/ Loop
    \/ SleepUntilPrayer
    \/ SendPrayer
    \/ sleep_until_midnight
    \/ Kill
    \/ Launch

Spec == Init /\ [][Next]_vars

\* The worker alone: it is never killed, and being the only thread of its
\* process it always takes its next step.
NextLive ==
    \/ RefreshGate(FALSE)
    \/ FetchUrl(FALSE)
    \/ DownloadExtract
    \/ WriteSchedule
    \/ SaveLastUrl
    \/ SaveFetchTimestamp
    \/ RunDay
    \/ SendUnavailable
    \/ Backoff
    \/ Loop
    \/ SleepUntilPrayer
    \/ SendPrayer
    \/ sleep_until_midnight

SpecLive == Init /\ [][NextLive]_vars /\ WF_vars(NextLive)

\* ------------------------------------------------- schedule.py: formatting
\* Strings are sequences of one-character strings.
DigitChars == <<"0", "1", "2", "3", "4", "5", "6", "7", "8", "9">>

\* f"{n}": the decimal digits of n, no padding
RECURSIVE Str(_)
Str(n) == IF n < 10 THEN <<DigitChars[n + 1]>>
          ELSE Str(n \div 10) \o <<DigitChars[(n % 10) + 1]>>

\* f"{n:02d}"
Pad2(n) == IF n < 10 THEN <<"0">> \o Str(n) ELSE Str(n)

\* time_until with "target < now" in place of "target <= now"
time_until_strict(t, target) ==
    LET today == AtMinute(t, target[1] * 60 + target[2])
        dt == IF today < t THEN today + DayLen ELSE today
        total_minutes == dt - t
        hours == total_minutes \div 60
        mins == total_minutes % 60
    IN IF hours > 0 THEN Str(hours) \o <<"h", " ">> \o Pad2(mins) \o <<"m">>
       ELSE Str(mins) \o <<"m">>

\* schedule.py lines 32-44; t is datetime.now(UK_TZ)
time_until(t, target) ==
    LET today == AtMinute(t, target[1] * 60 + target[2])
        dt == IF today <= t THEN today + DayLen ELSE today
        total_minutes == dt - t
        hours == total_minutes \div 60
        mins == total_minutes % 60
    IN IF hours > 0 THEN Str(hours) \o <<"h", " ">> \o Pad2(mins) \o <<"m">>
       ELSE Str(mins) \o <<"m">>

\* fmt_12h with "h % 12" in place of "h % 12 or 12"
fmt_12h_zero(target) ==
    LET h == target[1]
        m == target[2]
        period == IF h < 12 THEN <<"A", "M">> ELSE <<"P", "M">>
        h12 == h % 12
    IN Str(h12) \o <<":">> \o Pad2(m) \o <<" ">> \o period

\* schedule.py lines 47-52
fmt_12h(target) ==
    LET h == target[1]
        m == target[2]
        period == IF h < 12 THEN <<"A", "M">> ELSE <<"P", "M">>
        h12 == IF h % 12 = 0 THEN 12 ELSE h % 12
    IN Str(h12) \o <<":">> \o Pad2(m) \o <<" ">> \o period

\* the minutes of the day at which the helpers are called
NowStep == 61
NowTods == {n \in 0..(DayLen - 1) : n % NowStep = 0} \cup {DayLen - 1}

\* the helpers are called with every "HH:MM" at the sampled instants of the
\* first day (summer time) and of the last day (winter time)
InitUtil ==
    /\ clock \in {StartDay * DayLen + n - BstOffset : n \in NowTods}
                 \cup {MaxDay * DayLen + n : n \in {180, 720}}
    /\ hhmm_str \in (0..23) \X (0..59)
    /\ text = <<>>
    /\ pc = "schedule_py"
    /\ scheduleFile = NoSchedule /\ lastUrl = NoUrl /\ lastFetch = None
    /\ image_url = NoUrl /\ new_data = NoData /\ today_entry = NoEntry
    /\ now = None /\ i = 0 /\ prayer_time = None
    /\ launches = 1
    /\ call = NoCall
    /\ sent = [k \in {} |-> 0]
    /\ pass = NoPass

CallTimeUntil ==
    /\ pc = "schedule_py"
    /\ text' = time_until(clock, hhmm_str)
    /\ pc' = "time_until"
    /\ UNCHANGED <<clock, durable, locals, launches, call, sent, pass, hhmm_str>>

CallFmt12h ==
    /\ pc = "schedule_py"
    /\ text' = fmt_12h(hhmm_str)
    /\ pc' = "fmt_12h"
    /\ UNCHANGED <<clock, durable, locals, launches, call, sent, pass, hhmm_str>>

NextUtil ==
    \/ CallTimeUntil
    \/ CallFmt12h

SpecUtil == InitUtil /\ [][NextUtil]_vars

\* ====================================================================== C1
\* C1: for every (date, prayer) pair at most one prayer notification is
\* delivered, over all passes, loop iterations and restarts.
C1_AtMostOncePerDatePrayer ==
    \A k \in DOMAIN sent : sent[k] <= 1

\* ====================================================================== C2
EntriesOf(seq) == {seq[k] : k \in 1..Len(seq)}

\* the refresh_schedule call has run to its end
Completed == call.outcome \in {"skipped", "fetch_failed", "unchanged", "failed", "updated"}

\* C2: the schedule stored by a successful refresh holds exactly the dates of
\* A (the schedule at the call) and B (the extracted one); a date of B has
\* B's entry, a date of A alone has A's entry.
C2_MergeIsUnionByDate ==
    call.outcome = "updated" =>
        LET A == call.pre[1].prayers
            B == call.data.prayers
            S == scheduleFile.prayers
        IN /\ scheduleFile.exists
           /\ DatesOf(S) = DatesOf(A) \cup DatesOf(B)
           /\ \A k \in 1..Len(S) :
                /\ S[k].date \in DatesOf(B) => S[k] \in EntriesOf(B)
                /\ S[k].date \notin DatesOf(B) => S[k] \in EntriesOf(A)
           /\ \A k, n \in 1..Len(S) : S[k].date = S[n].date => k = n

\* a successful refresh met a date in both schedules with different entries
\* and a date that only the old schedule has
C2_Witness ==
    /\ call.outcome = "updated"
    /\ \E a \in EntriesOf(call.pre[1].prayers), b \in EntriesOf(call.data.prayers) :
          a.date = b.date /\ a # b
    /\ DatesOf(call.pre[1].prayers) \ DatesOf(call.data.prayers) # {}

\* ====================================================================== C3
\* C3: when the download or the extraction fails, schedule.json, last_url.txt
\* and last_fetch.txt are as they were before the call, and the call after a
\* failed one is not stopped by the 7-day gate.
C3_FailedRefreshLeavesFiles ==
    /\ call.outcome = "failed" => durable = call.pre
    /\ call.prev = "failed" => call.outcome # "skipped"

\* an extraction failed (not_found) while a schedule and an older
\* identifier were on disk
C3_Witness ==
    /\ call.outcome = "failed"
    /\ call.extracts = 1
    /\ call.pre[1].exists
    /\ call.fetched # call.pre[2]

\* ====================================================================== C4
\* C4: when fetching the identifier fails the three files are unchanged and
\* neither a download nor an extraction is performed.
C4_FetchFailureIsNoOp ==
    call.outcome = "fetch_failed" =>
        /\ durable = call.pre
        /\ call.downloads = 0
        /\ call.extracts = 0
        /\ pc \notin {"download", "merge", "save_url", "save_ts"}

C4_Witness ==
    /\ call.outcome = "fetch_failed"
    /\ call.pre[1].exists
    /\ pc = "run_day"

\* ====================================================================== C5
\* the fetcher reported the identifier of last_url.txt whenever it was asked
SameIdentifier ==
    /\ call.outcome # "fetch_failed"
    /\ call.fetches = 1 => call.fetched = call.pre[2]

\* C5 as stated: the call after an Unchanged one, with a schedule present and
\* the same identifier, is Unchanged too, extracts nothing and stamps
\* last_fetch.txt.
C5_SecondCallUnchanged ==
    (Completed /\ call.prev = "unchanged" /\ call.pre[1].exists /\ SameIdentifier) =>
        /\ call.outcome = "unchanged"
        /\ call.extracts = 0
        /\ lastFetch = call.at

\* C5: with a schedule present and the fetcher reporting the identifier of
\* last_url.txt, no call extracts; a call that reaches the fetcher is
\* Unchanged and stamps last_fetch.txt; the call after an Unchanged one that
\* comes less than 7 days after last_fetch.txt is skipped without a fetch
\* and leaves the three files alone.
C5_UnchangedOrSkipped ==
    /\ (Completed /\ call.pre[1].exists /\ SameIdentifier) =>
          /\ call.downloads = 0
          /\ call.extracts = 0
          /\ call.fetches = 1 => (call.outcome = "unchanged" /\ lastFetch = call.at
                                   /\ scheduleFile = call.pre[1] /\ lastUrl = call.pre[2])
    /\ (Completed /\ call.prev = "unchanged" /\ call.pre[1].exists
           /\ call.at - call.pre[3] < REFRESH_INTERVAL_DAYS * DayLen) =>
          /\ call.outcome = "skipped"
          /\ call.fetches = 0
          /\ durable = call.pre

\* the call after an Unchanged one was skipped
C5_Witness ==
    /\ call.prev = "unchanged"
    /\ call.outcome = "skipped"
    /\ call.at > call.pre[3]

\* ====================================================================== C6
\* index of a prayer name in PRAYERS
IndexOf(prayer) == CHOOSE k \in 1..Len(PRAYERS) : PRAYERS[k][1] = prayer

\* the prayers of the pass's entry that have a start and a jamaat and whose
\* start is not before the moment the pass began
Announced(p) ==
    {k \in 1..Len(PRAYERS) :
        /\ p.entry[PRAYERS[k][2]] # None
        /\ p.entry[PRAYERS[k][3]] # None
        /\ p.date * DayLen + p.entry[PRAYERS[k][2]] >= Wall(p.now)}

\* C6: a pass notifies a prayer only if today's entry has its start and its
\* jamaat; a pass that returns has notified, once and in order, every such
\* prayer not already past, whatever the other prayers lack.
C6_OnlyCompletePrayers ==
    /\ \A n \in 1..Len(pass.log) :
          /\ pass.entry[PRAYERS[IndexOf(pass.log[n].prayer)][2]] # None
          /\ pass.entry[PRAYERS[IndexOf(pass.log[n].prayer)][3]] # None
    /\ (pass.found /\ pass.state = "returned") =>
          /\ {IndexOf(pass.log[n].prayer) : n \in 1..Len(pass.log)} = Announced(pass)
          /\ \A n, m \in 1..Len(pass.log) :
                n < m => IndexOf(pass.log[n].prayer) < IndexOf(pass.log[m].prayer)

\* a pass over an entry that holds only fajr and sunrise sent fajr alone
C6_Witness ==
    /\ pass.state = "returned"
    /\ pass.found
    /\ pass.entry.zuhr_start = None
    /\ pass.entry.isha_jamaat = None
    /\ Len(pass.log) = 1
    /\ pass.log[1].prayer = "fajr"

\* ====================================================================== C7
\* C7: a pass that finds no entry for today delivers exactly one
\* "unavailable" notification and no prayer notification, and the worker
\* keeps running.
C7_OneUnavailableNotification ==
    (~pass.found /\ pass.state \in {"returned", "crashed"}) =>
        /\ pass.state = "returned"
        /\ pass.unavailable = 1
        /\ pass.log = <<>>

\* ====================================================================== C8
\* C8 as stated: next_prayer is the first later prayer with a start in
\* today's entry, absent only when there is none.
C8_NextIsFirstLaterWithStart ==
    \A n \in 1..Len(pass.log) :
        LET k == IndexOf(pass.log[n].prayer)
            later == {m \in (k + 1)..Len(PRAYERS) : pass.entry[PRAYERS[m][2]] # None}
        IN IF later = {}
           THEN pass.log[n].next_prayer = NoPrayer
           ELSE /\ pass.log[n].next_prayer = PRAYERS[MinOf(later)][1]
                /\ pass.log[n].next_start = pass.entry[PRAYERS[MinOf(later)][2]]

\* C8: next_prayer is the prayer immediately after p in the order fajr,
\* zuhr, asr, maghrib, isha, with its start, when today's entry has that
\* start; it is absent otherwise, and always for isha.
C8_NextIsImmediateSuccessor ==
    \A n \in 1..Len(pass.log) :
        LET k == IndexOf(pass.log[n].prayer)
        IN IF k = Len(PRAYERS)
           THEN pass.log[n].next_prayer = NoPrayer /\ pass.log[n].next_start = None
           ELSE IF pass.entry[PRAYERS[k + 1][2]] = None
           THEN pass.log[n].next_prayer = NoPrayer /\ pass.log[n].next_start = None
           ELSE /\ pass.log[n].next_prayer = PRAYERS[k + 1][1]
                /\ pass.log[n].next_start = pass.entry[PRAYERS[k + 1][2]]

\* fajr was notified on a day whose zuhr has no start while asr has one, and
\* a prayer was notified with its successor's start
C8_Witness ==
    /\ \E n \in 1..Len(pass.log) :
          /\ pass.log[n].prayer = "fajr"
          /\ pass.entry.zuhr_start = None
          /\ pass.entry.asr_start # None
          /\ pass.log[n].next_prayer = NoPrayer
    /\ \E n \in 1..Len(pass.log) :
          /\ pass.log[n].prayer = "asr"
          /\ pass.log[n].next_prayer = "maghrib"

\* ====================================================================== C9
\* C9: no failure of fetch, extraction or delivery terminates the main loop.
C9_NoRuntimeErrorIsFatal ==
    pc # "crashed"

\* ===================================================================== C10
\* C10: after a pass that found no entry and backed off 30 minutes, the next
\* look-up of today's entry by the same process is made when the wait is
\* over, so on the day the wait ended.
C10_RecheckAfterBackoff ==
    [][(pc = "run_day" /\ pc' # "run_day" /\ pc' # "killed"
          /\ pass.state = "returned" /\ ~pass.found /\ pass.run = launches)
       => pass'.date = DateOf(pass.resumed)]_vars

\* ===================================================================== C11
\* C11: an unforced call made less than 7 days after last_fetch.txt with a
\* schedule on disk fetches, downloads and extracts nothing and leaves the
\* three files alone; when the file is 7 days old or more, or absent, or
\* there is no schedule, the call goes on to fetch the identifier.
C11_GateSkipsOnlyWhenRecent ==
    LET recent == call.pre[3] # None /\ call.at - call.pre[3] < REFRESH_INTERVAL_DAYS * DayLen
        closed == recent /\ call.pre[1].exists
    IN call.outcome # "none" =>
          /\ closed => /\ call.outcome = "skipped"
                       /\ call.fetches = 0
                       /\ call.downloads = 0
                       /\ call.extracts = 0
                       /\ durable = call.pre
          /\ ~closed => /\ call.outcome # "skipped"
                        /\ \/ pc = "fetch"
                           \/ call.fetches = 1
                           \/ call.outcome = "interrupted"

\* a call made less than 7 days after the last fetch, with a schedule on
\* disk, returned at the gate
C11_Witness ==
    /\ call.outcome = "skipped"
    /\ call.pre[1].exists
    /\ call.at - call.pre[3] < REFRESH_INTERVAL_DAYS * DayLen
    /\ call.fetches = 0
    /\ pc = "run_day"


\* ===================================================================== C12
\* reading a rendered string back
Digits == {DigitChars[k] : k \in 1..Len(DigitChars)}
DigitValue(c) == CHOOSE d \in 0..9 : DigitChars[d + 1] = c
IsDigits(s) == Len(s) > 0 /\ \A k \in 1..Len(s) : s[k] \in Digits
Unpadded(s) == IsDigits(s) /\ (Len(s) = 1 \/ s[1] # "0")

RECURSIVE NatOf(_)
NatOf(s) == IF Len(s) = 0 THEN 0
            ELSE NatOf(SubSeq(s, 1, Len(s) - 1)) * 10 + DigitValue(s[Len(s)])

Positions(s, c) == {k \in 1..Len(s) : s[k] = c}

\* C12: time_until treats a target at or before now as tomorrow's: the
\* duration it renders is strictly positive, at most 24h, 24h exactly when
\* the target equals now, and leads from now to the target's minute; it is
\* rendered "<hours>h <two-digit minutes>m" when hours > 0, else "<minutes>m".
C12_TimeUntilWrapsAndRenders ==
    pc = "time_until" =>
        LET n == Wall(clock) % DayLen
            t == hhmm_str[1] * 60 + hhmm_str[2]
            L == Len(text)
            hs == Positions(text, "h")
            k == MinOf(hs)
            hoursPart == SubSeq(text, 1, k - 1)
            minsPart == SubSeq(text, k + 2, L - 1)
            only == SubSeq(text, 1, L - 1)
            v == IF hs # {} THEN NatOf(hoursPart) * 60 + NatOf(minsPart) ELSE NatOf(only)
        IN /\ L >= 2 /\ text[L] = "m"
           /\ IF hs # {}
              THEN /\ Unpadded(hoursPart) /\ NatOf(hoursPart) > 0
                   /\ text[k + 1] = " "
                   /\ IsDigits(minsPart) /\ Len(minsPart) = 2 /\ NatOf(minsPart) < 60
              ELSE Unpadded(only) /\ v < 60
           /\ v > 0 /\ v <= DayLen
           /\ (v = DayLen) <=> (t = n)
           /\ (n + v) % DayLen = t

\* the target equals now (10:10 at 10:10) and the result is "24h 00m"
C12_Witness ==
    /\ pc = "time_until"
    /\ hhmm_str[1] * 60 + hhmm_str[2] = Wall(clock) % DayLen
    /\ text = <<"2", "4", "h", " ", "0", "0", "m">>

\* ===================================================================== C13
\* C13: for every HH:MM fmt_12h yields "<h12>:<MM> AM|PM" with h12 in 1..12,
\* the same minute, and a period such that reading it back (12 AM -> 0,
\* 12 PM -> 12, otherwise h12, plus 12 if PM) gives the original hour and
\* minute; 00:00 -> 12:00 AM, 12:00 -> 12:00 PM, 13:30 -> 1:30 PM,
\* 23:59 -> 11:59 PM.
C13_Fmt12hRoundTrips ==
    pc = "fmt_12h" =>
        LET L == Len(text)
            cs == Positions(text, ":")
            k == MinOf(cs)
            hourPart == SubSeq(text, 1, k - 1)
            minPart == SubSeq(text, k + 1, k + 2)
            period == SubSeq(text, k + 4, L)
            h12 == NatOf(hourPart)
            back == IF h12 = 12 THEN (IF period = <<"A", "M">> THEN 0 ELSE 12)
                    ELSE IF period = <<"P", "M">> THEN h12 + 12 ELSE h12
        IN /\ cs # {} /\ L = k + 5
           /\ Unpadded(hourPart) /\ h12 \in 1..12
           /\ IsDigits(minPart) /\ NatOf(minPart) = hhmm_str[2]
           /\ text[k + 3] = " "
           /\ period \in {<<"A", "M">>, <<"P", "M">>}
           /\ back = hhmm_str[1]
           /\ hhmm_str = <<0, 0>> => text = <<"1", "2", ":", "0", "0", " ", "A", "M">>
           /\ hhmm_str = <<12, 0>> => text = <<"1", "2", ":", "0", "0", " ", "P", "M">>
           /\ hhmm_str = <<13, 30>> => text = <<"1", ":", "3", "0", " ", "P", "M">>
           /\ hhmm_str = <<23, 59>> => text = <<"1", "1", ":", "5", "9", " ", "P", "M">>

\* midnight is rendered as 12:00 AM
C13_Witness ==
    /\ pc = "fmt_12h"
    /\ hhmm_str = <<0, 0>>
    /\ text = <<"1", "2", ":", "0", "0", " ", "A", "M">>

\* ===================================================================== C14
\* C14: a refresh attempt is all-or-nothing on the durable state: after a
\* call that was killed or that raised, the triple (schedule.json,
\* last_url.txt, last_fetch.txt) is entirely as before the call or entirely as
\* a successful call leaves it, never a mix.
C14_RefreshAllOrNothing ==
    call.outcome \in {"interrupted", "fetch_failed", "failed"} =>
        \/ durable = call.pre
        \/ durable = <<call.pre[1], call.pre[2], call.at>>
        \/ /\ call.data # NoData
           /\ durable = <<Merged(call.pre[1], call.data), call.fetched, call.at>>

\* ===================================================================== C15
\* the instant at which the wall clock of Europe/London shows hhmm on day d
StartInstant(d, hm) ==
    IF d * DayLen + hm - BstOffset < FallBack
    THEN d * DayLen + hm - BstOffset
    ELSE d * DayLen + hm

\* the prayers of the pass's entry that have a start and a jamaat
Complete(p) ==
    IF p.entry = NoEntry THEN {}
    ELSE {k \in 1..Len(PRAYERS) :
            p.entry[PRAYERS[k][2]] # None /\ p.entry[PRAYERS[k][3]] # None}

LogIndexes(p) == {IndexOf(p.log[n].prayer) : n \in 1..Len(p.log)}

Ascending(p) ==
    \A n, m \in 1..Len(p.log) :
        n < m => IndexOf(p.log[n].prayer) < IndexOf(p.log[m].prayer)

\* C15 as stated: notifications go out in the order fajr, zuhr, asr,
\* maghrib, isha, and the prayers already due when the pass starts are each
\* still delivered once, in that order.
C15_DuePrayersStillDelivered ==
    /\ Ascending(pass)
    /\ (pass.found /\ pass.state = "returned") => LogIndexes(pass) = Complete(pass)

\* C15: within a pass notifications go out in the order fajr, zuhr, asr,
\* maghrib, isha, each prayer at most once; a prayer whose start is already
\* past when the pass starts is skipped, not delivered.
C15_CanonicalOrderDueSkipped ==
    /\ Ascending(pass)
    /\ \A k \in Complete(pass) :
          StartInstant(pass.entry.date, pass.entry[PRAYERS[k][2]]) < pass.now
              => k \notin LogIndexes(pass)

\* a pass that began after fajr returned having sent zuhr first, then asr
C15_Witness ==
    /\ pass.found /\ pass.state = "returned"
    /\ 1 \in Complete(pass)
    /\ StartInstant(pass.entry.date, pass.entry.fajr_start) < pass.now
    /\ Len(pass.log) >= 2
    /\ pass.log[1].prayer = "zuhr"
    /\ pass.log[2].prayer = "asr"

\* ===================================================================== C16
\* C16: a prayer whose start instant is strictly before the moment the pass
\* began is never notified in that pass; every other prayer with start and
\* jamaat is waited for, in ascending canonical order, by sleeping until its
\* start instant, so it is notified at that instant.
C16_PastSkippedOthersAwaited ==
    /\ \A n \in 1..Len(pass.log) :
          /\ StartInstant(pass.entry.date, pass.log[n].start) >= pass.now
          /\ pass.log[n].at = StartInstant(pass.entry.date, pass.log[n].start)
    /\ Ascending(pass)
    /\ (pass.found /\ pass.state = "returned") =>
          LogIndexes(pass) =
              {k \in Complete(pass) :
                  StartInstant(pass.entry.date, pass.entry[PRAYERS[k][2]]) >= pass.now}

\* ===================================================================== C17
\* C17: last_url.txt is written only in the successful refresh that wrote
\* the merged schedule extracted from that identifier's image, so whenever
\* last_url.txt holds an identifier, schedule.json exists and contains every
\* date that was extracted from that identifier's image.
C17_LastUrlWasProcessed ==
    /\ lastUrl # NoUrl =>
          /\ scheduleFile.exists
          /\ call.dates # {}
          /\ call.dates \subseteq DatesOf(scheduleFile.prayers)
    /\ lastUrl = NoUrl => call.dates = {}

\* a refresh replaced the identifier, and the store holds the dates of the
\* new image next to older ones
C17_Witness ==
    /\ call.outcome = "updated"
    /\ call.pre[2] = "u1"
    /\ lastUrl = "u2"
    /\ call.dates = DatesOf(call.data.prayers)
    /\ call.dates \subseteq DatesOf(scheduleFile.prayers)
    /\ call.dates # DatesOf(scheduleFile.prayers)

\* ===================================================================== C18
\* C18: while the worker runs without being killed no calendar day is
\* skipped: the pass that follows a returned pass of the same process starts
\* on the same local date or on the next one, also when the previous pass took
\* the 30-minute back-off across midnight.
C18_NoDaySkipped ==
    [][(pc = "run_day" /\ pc' # "run_day" /\ pc' # "killed"
          /\ pass.state = "returned" /\ pass.run = launches)
       => pass'.date <= pass.date + 1]_vars

\* ===================================================================== C19
\* the prayers a pass has to notify: start and jamaat present, start instant
\* at or after the start of the pass
Due(p) ==
    {k \in Complete(p) : StartInstant(p.entry.date, p.entry[PRAYERS[k][2]]) >= p.now}

\* C19: if a pass starts on date D with an entry for D, the process is not
\* killed and deliveries succeed, then every prayer of D with start and jamaat
\* whose start instant is at or after the start of the pass is eventually
\* notified, the pass returns and the worker reaches sleep_until_midnight.
C19_PassNotifiesAndReturns ==
    \A d \in StartDay..MaxDay :
        (pass.state = "running" /\ pass.found /\ pass.date = d)
            ~> \/ pass.state = "crashed"
               \/ /\ pc = "midnight"
                  /\ pass.state = "returned" /\ pass.found /\ pass.date = d
                  /\ LogIndexes(pass) = Due(pass)

\* a pass that began at 10:00 returned after notifying zuhr to isha
C19_Witness ==
    /\ pc = "midnight"
    /\ pass.state = "returned" /\ pass.found
    /\ 1 \in Complete(pass) /\ 1 \notin Due(pass)
    /\ Due(pass) = {2, 3, 4, 5}
    /\ LogIndexes(pass) = Due(pass)

\* ===================================================================== C20
\* C20: no prayer notification is delivered before that prayer's start
\* instant on the entry's date: every notification of a pass was sent at or
\* after the start time recorded for the prayer in the entry the pass read.
C20_NeverBeforeStart ==
    \A n \in 1..Len(pass.log) :
        /\ pass.log[n].start = pass.entry[PRAYERS[IndexOf(pass.log[n].prayer)][2]]
        /\ pass.log[n].at >= StartInstant(pass.entry.date, pass.log[n].start)

====
